---- MODULE Spec2Model ----
(***************************************************************************)
(* The real-time multiplayer lobby of src/app/multiplayer/page.tsx.        *)
(*                                                                         *)
(* One shared lobby document lives in the document store; every client     *)
(* (one per user) keeps React state (view, lobbyId, lobby, showAnswer,     *)
(* currentTrack, error), a snapshot listener whose closure captured the    *)
(* view at subscription time together with its own previousTrackIndex, and *)
(* a countdown whose handleTimeUp closure captured the lobby of the render *)
(* in which the timer effect ran.                                          *)
(*                                                                         *)
(* Store semantics: updateDoc replaces the named fields only and fails on  *)
(* a missing document; arrayUnion appends an element unless an equal one   *)
(* is present; a listener is called with the latest document after a       *)
(* change (intermediate versions may be coalesced) and once after          *)
(* subscribing.  A client's local `lobby` is whatever its listener         *)
(* delivered last, so it can lag behind the store.                         *)
(*                                                                         *)
(* React semantics: a click handler runs against the latest render and     *)
(* pending effects are flushed before a click is handled, so the UI        *)
(* actions require the listener effect to be up to date; the listener      *)
(* callback and the countdown callback run with the closures they were     *)
(* created with.  The menu, create and join screens are one view, "menu".  *)
(***************************************************************************)
EXTENDS Integers, Sequences, FiniteSets, TLC

\* ------------------------------------------------------------------ bounds
Users == {"u1", "u2"}
\* the users who may create the lobby (the users are interchangeable)
Creators == {"u1"}
\* number of tracks of the lobby (gameTracks.length)
NumTracks == 2
\* how many finishGame runs are counted per player
MaxSessions == 2
\* elapsed milliseconds a player may take to answer
TimeChoices(c) == IF c = "u1" THEN {15000} ELSE {7500}

\* ------------------------------------------------------- program constants
BaseScore == 1000
SpeedBonus == 500
DefaultMaxTime == 30000
\* significant bits of an IEEE-754 double
DoubleBits == 53
TimeOutAnswer == "Time Out"
WrongOption == "decoy"

VARIABLES
    docState,       \* "none" (not created yet), "live", "deleted"
    doc,            \* the lobby document in the store
    gameSessions,   \* uid -> gameSessions records written for the user (the user's
                    \* totalGamesPlayed is incremented in the same loop iteration)
    view,           \* uid -> view state
    lobbyId,        \* uid -> lobbyId state ("" or the document id)
    lobby,          \* uid -> lobby state (NullLobby is null)
    error,          \* uid -> error state
    showAnswer,     \* uid -> showAnswer state
    currentTrack,   \* uid -> index of the prepared track, -1 for null
    sub,            \* uid -> the active snapshot listener and its closure
    timerLobby,     \* uid -> lobby captured by the running countdown's handleTimeUp
                    \* (NullLobby while no countdown runs)
    joinPc,         \* uid -> "idle" or "write" (joinLobby awaiting updateDoc)
    pendingCalls,   \* uid -> handleAnswer calls since the last render: 0, 1, or 2 for more
    prepared,       \* uid -> indices prepareQuestion was called with in this playing view
    call            \* the call of a function of src/lib/gameLogic.ts under examination
                    \* (NoCall while the lobby runs)

vars == << docState, doc, gameSessions, view, lobbyId, lobby, error,
           showAnswer, currentTrack, sub, timerLobby, joinPc, pendingCalls, prepared,
           call >>

\* every variable but `call`
lobbyVars == << docState, doc, gameSessions, view, lobbyId, lobby, error,
                showAnswer, currentTrack, sub, timerLobby, joinPc, pendingCalls,
                prepared >>

LobbyDocId == "L1"
NoTrack == -1
NullIndex == -1

\* ------------------------------------------------------------ data shapes
NullLobby ==
    [ hostId |-> "", players |-> << >>, status |-> "null", currentTrackIndex |-> 0,
      tracks |-> << >>, totalQuestions |-> 0, startPositions |-> << >> ]

NoCall == [ fn |-> "none" ]

NoSub == [ active |-> FALSE, view |-> "menu", prev |-> NullIndex, fresh |-> TRUE ]

NewPlayer(uid, ready) ==
    [ uid |-> uid, score |-> 0, answers |-> << >>, isReady |-> ready ]

\* the title of the track at 0-based index i (track.name)
TrackName(i) == "song" \o ToString(i)

\* ---------------------------------------------------------------- helpers
HasPlayer(players, uid) == \E i \in DOMAIN players : players[i].uid = uid

PlayerOf(players, uid) ==
    players[CHOOSE i \in DOMAIN players :
               players[i].uid = uid /\ \A j \in DOMAIN players : players[j].uid = uid => i <= j]

\* arrayUnion: append unless an equal element is already in the array
ArrayUnion(players, p) ==
    IF \E i \in DOMAIN players : players[i] = p THEN players ELSE Append(players, p)

\* ---------------------------------------------------------------------------
\* The arithmetic of calculateScore.  JavaScript numbers are IEEE-754 doubles:
\* timeToAnswer / maxTime, 1 - (...) and 500 * (...) are each rounded to 53
\* significant bits (nearest, ties to even) before Math.floor is taken.  A
\* non-negative number is held here in binary fixed point: int + 0.frac,
\* frac a sequence of bits, most significant first.
\* ---------------------------------------------------------------------------
RECURSIVE BitLength(_)
BitLength(n) == IF n = 0 THEN 0 ELSE 1 + BitLength(n \div 2)

RECURSIVE LeadingZeros(_)
LeadingZeros(bits) ==
    IF bits = << >> \/ Head(bits) = 1 THEN 0 ELSE 1 + LeadingZeros(Tail(bits))

\* carry and bits of bits + c, c added at the last position: << carry >> \o sum
RECURSIVE BitsAdd(_, _)
BitsAdd(bits, c) ==
    IF c = 0 THEN << 0 >> \o bits
    ELSE IF bits = << >> THEN << c >>
    ELSE LET n == Len(bits)
             v == bits[n] + c
         IN  Append(BitsAdd(SubSeq(bits, 1, n - 1), v \div 2), v % 2)

\* carry and bits of bits * k + c: << carry >> \o product
RECURSIVE BitsMul(_, _, _)
BitsMul(bits, k, c) ==
    IF bits = << >> THEN << c >>
    ELSE LET n == Len(bits)
             v == bits[n] * k + c
         IN  IF v < 2 THEN Append(BitsMul(SubSeq(bits, 1, n - 1), k, 0), v)
             ELSE Append(BitsMul(SubSeq(bits, 1, n - 1), k, v \div 2), v % 2)

\* the first n bits of r / m for 0 <= r < m, trailing zeros left out once the
\* division has come out even
RECURSIVE DivBits(_, _, _)
DivBits(r, m, n) ==
    IF n = 0 \/ r = 0 THEN << >>
    ELSE IF 2 * r >= m THEN << 1 >> \o DivBits(2 * r - m, m, n - 1)
    ELSE << 0 >> \o DivBits(2 * r, m, n - 1)

\* what is left of r after n bits of r / m
RECURSIVE DivRest(_, _, _)
DivRest(r, m, n) ==
    IF n = 0 \/ r = 0 THEN r
    ELSE IF 2 * r >= m THEN DivRest(2 * r - m, m, n - 1)
    ELSE DivRest(2 * r, m, n - 1)

\* round to nearest, ties to even, at DoubleBits significant bits
RoundDouble(x, sticky) ==
    LET keep == IF x.int > 0 THEN DoubleBits - BitLength(x.int)
                ELSE LeadingZeros(x.frac) + DoubleBits
    IN  IF Len(x.frac) <= keep THEN x
        ELSE LET kept == SubSeq(x.frac, 1, keep)
                 half == x.frac[keep + 1]
                 more == sticky \/ \E i \in (keep + 2)..Len(x.frac) : x.frac[i] = 1
                 odd == IF keep = 0 THEN x.int % 2 = 1 ELSE kept[keep] = 1
                 r == BitsAdd(kept, IF half = 1 /\ (more \/ odd) THEN 1 ELSE 0)
             IN  [ int |-> x.int + Head(r), frac |-> Tail(r) ]

\* t / m in double arithmetic, 0 <= t <= m, m > 0
DoubleDiv(t, m) ==
    IF t = m THEN [ int |-> 1, frac |-> << >> ]
    ELSE LET n == LeadingZeros(DivBits(t, m, BitLength(m))) + DoubleBits + 2
         IN  RoundDouble([ int |-> 0, frac |-> DivBits(t, m, n) ], DivRest(t, m, n) # 0)

RECURSIVE Invert(_)
Invert(bits) ==
    IF bits = << >> THEN << >> ELSE << 1 - Head(bits) >> \o Invert(Tail(bits))

\* 1 - x in double arithmetic, 0 <= x <= 1
DoubleOneMinus(x) ==
    IF x.int = 1 THEN [ int |-> 0, frac |-> << >> ]
    ELSE LET r == BitsAdd(Invert(x.frac), 1)
         IN  RoundDouble([ int |-> Head(r), frac |-> Tail(r) ], FALSE)

\* k * x in double arithmetic
DoubleTimes(k, x) ==
    LET r == BitsMul(x.frac, k, 0)
    IN  RoundDouble([ int |-> x.int * k + Head(r), frac |-> Tail(r) ], FALSE)

Floor(x) == x.int

\* Math.floor(500 * (1 - timeToAnswer / maxTime)), 0 <= timeToAnswer <= maxTime
speedBonus(timeToAnswer, maxTime) ==
    Floor(DoubleTimes(SpeedBonus, DoubleOneMinus(DoubleDiv(timeToAnswer, maxTime))))

\* calculateScore without the speed bonus
calculateScoreNoBonus(isCorrect, timeToAnswer, maxTime) ==
    IF ~isCorrect THEN 0 ELSE BaseScore

calculateScore(isCorrect, timeToAnswer, maxTime) ==
    IF ~isCorrect THEN 0
    ELSE BaseScore + speedBonus(timeToAnswer, maxTime)

\* isHost that holds for every client with a lobby
IsHostAnyMember(c) == lobby[c] # NullLobby

\* isHost, with the !lobby test of the handlers
IsHost(c) == lobby[c] # NullLobby /\ lobby[c].hostId = c

\* every write to the document makes every listener due a snapshot
Stale(s) == [ u \in Users |-> [ s[u] EXCEPT !.fresh = FALSE ] ]

\* the client has re-rendered since its last handleAnswer
Rendered(c) == pendingCalls[c] = 0

\* the listener effect has run for the current lobbyId and view
EffectsFlushed(c) ==
    /\ sub[c].active = (lobbyId[c] # "")
    /\ sub[c].active => sub[c].view = view[c]

\* nothing of the client is pending: no join in flight, rendered, effects run
Idle(c) == joinPc[c] = "idle" /\ Rendered(c) /\ EffectsFlushed(c)

\* ------------------------------------------------------------------- Init
\* no lobby yet, every client at the menu
NoLobbyYet ==
    /\ docState = "none"
    /\ doc = NullLobby
    /\ gameSessions = [ u \in Users |-> 0 ]
    /\ view = [ u \in Users |-> "menu" ]
    /\ lobbyId = [ u \in Users |-> "" ]
    /\ lobby = [ u \in Users |-> NullLobby ]
    /\ error = [ u \in Users |-> "" ]
    /\ showAnswer = [ u \in Users |-> FALSE ]
    /\ currentTrack = [ u \in Users |-> NoTrack ]
    /\ sub = [ u \in Users |-> NoSub ]
    /\ timerLobby = [ u \in Users |-> NullLobby ]
    /\ joinPc = [ u \in Users |-> "idle" ]
    /\ pendingCalls = [ u \in Users |-> 0 ]
    /\ prepared = [ u \in Users |-> {} ]

Init == NoLobbyYet /\ call = NoCall

\* ------------------------------------------------------------ createLobby
createLobby(c) ==
    /\ docState = "none"
    /\ view[c] = "menu" /\ lobbyId[c] = "" /\ Idle(c)
    /\ docState' = "live"
    /\ doc' = [ hostId |-> c,
                players |-> << NewPlayer(c, TRUE) >>,
                status |-> "waiting",
                currentTrackIndex |-> 0,
                tracks |-> [ i \in 1..NumTracks |-> i - 1 ],
                totalQuestions |-> NumTracks,
                startPositions |-> << >> ]
    /\ lobbyId' = [ lobbyId EXCEPT ![c] = LobbyDocId ]
    /\ view' = [ view EXCEPT ![c] = "lobby" ]
    /\ error' = [ error EXCEPT ![c] = "" ]
    /\ sub' = Stale(sub)
    /\ UNCHANGED << call, gameSessions, lobby, showAnswer, currentTrack,
                    timerLobby, joinPc, pendingCalls, prepared >>

\* -------------------------------------------------- listener effect (224-282)
LobbyListenerEffect(c) ==
    /\ ~EffectsFlushed(c) /\ Rendered(c)
    /\ sub' = [ sub EXCEPT ![c] =
                  IF lobbyId[c] = "" THEN NoSub
                  ELSE [ active |-> TRUE, view |-> view[c], prev |-> NullIndex,
                         fresh |-> FALSE ] ]
    /\ UNCHANGED << call, docState, doc, gameSessions, view, lobbyId, lobby, error,
                    showAnswer, currentTrack, timerLobby, joinPc, pendingCalls, prepared >>

\* --------------------------------------------------- prepareQuestion (557-577)
\* The client state prepareQuestion(index, ...) leaves behind when called from the
\* listener with the pushed document d: the track, a cleared showAnswer, and (in the
\* following render) a restarted countdown whose handleTimeUp closes over d.
PrepCurrentTrack(d, index) == d.tracks[index + 1]

\* --------------------------------------------------- onSnapshot handler (229-279)
SnapshotMissing(c) ==
    /\ docState # "live"
    /\ error' = [ error EXCEPT ![c] = "Lobby not found" ]
    /\ view' = [ view EXCEPT ![c] = "menu" ]
    /\ prepared' = [ prepared EXCEPT ![c] = {} ]
    /\ lobbyId' = [ lobbyId EXCEPT ![c] = "" ]
    /\ sub' = [ sub EXCEPT ![c].fresh = TRUE ]
    /\ timerLobby' = [ timerLobby EXCEPT ![c] = NullLobby ]
    /\ UNCHANGED << docState, doc, lobby, showAnswer, currentTrack >>

SnapshotHostAbsent(c) ==
    /\ docState = "live"
    /\ ~HasPlayer(doc.players, doc.hostId)
    /\ lobby' = [ lobby EXCEPT ![c] = doc ]
    /\ error' = [ error EXCEPT ![c] = "Host left the game. Lobby closed." ]
    /\ view' = [ view EXCEPT ![c] = "menu" ]
    /\ prepared' = [ prepared EXCEPT ![c] = {} ]
    /\ lobbyId' = [ lobbyId EXCEPT ![c] = "" ]
    /\ docState' = "deleted"
    /\ sub' = [ Stale(sub) EXCEPT ![c].fresh = TRUE ]
    /\ timerLobby' = [ timerLobby EXCEPT ![c] = NullLobby ]
    /\ UNCHANGED << doc, showAnswer, currentTrack >>

SnapshotRemoved(c) ==
    /\ docState = "live"
    /\ HasPlayer(doc.players, doc.hostId)
    /\ ~HasPlayer(doc.players, c)
    /\ lobby' = [ lobby EXCEPT ![c] = doc ]
    /\ error' = [ error EXCEPT ![c] = "You were removed from the lobby" ]
    /\ view' = [ view EXCEPT ![c] = "menu" ]
    /\ prepared' = [ prepared EXCEPT ![c] = {} ]
    /\ lobbyId' = [ lobbyId EXCEPT ![c] = "" ]
    /\ sub' = [ sub EXCEPT ![c].fresh = TRUE ]
    /\ timerLobby' = [ timerLobby EXCEPT ![c] = NullLobby ]
    /\ UNCHANGED << docState, doc, showAnswer, currentTrack >>

\* does the handler call prepareQuestion for the pushed document?
ListenerPrepares(c) ==
    /\ doc.status = "playing"
    /\ \/ sub[c].view # "playing"
       \/ /\ sub[c].prev # NullIndex
          /\ doc.currentTrackIndex # sub[c].prev

\* previousTrackIndex after the handler ran
ListenerPrev(c) ==
    IF doc.status = "playing" THEN doc.currentTrackIndex ELSE sub[c].prev

\* the view the handler sets (or leaves)
ListenerView(c) ==
    IF doc.status = "playing" /\ sub[c].view # "playing" THEN "playing"
    ELSE IF doc.status = "playing" THEN view[c]
    ELSE IF doc.status = "finished" /\ sub[c].view # "results" THEN "results"
    ELSE IF doc.status = "waiting" /\ sub[c].view = "playing" THEN "lobby"
    ELSE view[c]

SnapshotMember(c) ==
    /\ docState = "live"
    /\ HasPlayer(doc.players, doc.hostId)
    /\ HasPlayer(doc.players, c)
    /\ lobby' = [ lobby EXCEPT ![c] = doc ]
    /\ view' = [ view EXCEPT ![c] = ListenerView(c) ]
    /\ sub' = [ sub EXCEPT ![c].fresh = TRUE, ![c].prev = ListenerPrev(c) ]
    /\ IF ListenerPrepares(c)
       THEN /\ currentTrack' = [ currentTrack EXCEPT
                                   ![c] = PrepCurrentTrack(doc, doc.currentTrackIndex) ]
            /\ showAnswer' = [ showAnswer EXCEPT ![c] = FALSE ]
            /\ timerLobby' = [ timerLobby EXCEPT ![c] = doc ]
            /\ prepared' = [ prepared EXCEPT ![c] = @ \cup {doc.currentTrackIndex} ]
       ELSE /\ prepared' = [ prepared EXCEPT
                               ![c] = IF ListenerView(c) = "playing" THEN @ ELSE {} ]
            /\ timerLobby' = [ timerLobby EXCEPT
                                 ![c] = IF ListenerView(c) = "playing" THEN @ ELSE NullLobby ]
            /\ UNCHANGED << currentTrack, showAnswer >>
    /\ UNCHANGED << docState, doc, error, lobbyId >>

Deliver(c) ==
    /\ sub[c].active /\ ~sub[c].fresh
    /\ Rendered(c)
    /\ \/ SnapshotMissing(c)
       \/ SnapshotHostAbsent(c)
       \/ SnapshotRemoved(c)
       \/ SnapshotMember(c)
    /\ UNCHANGED << call, gameSessions, joinPc, pendingCalls >>

\* ------------------------------------------------------- joinLobby (430-487)
\* joinLobby without the status check of lines 447-450
JoinLobbyReadNoStatusCheck(c) ==
    /\ view[c] = "menu" /\ lobbyId[c] = "" /\ Idle(c)
    /\ docState # "none"
    /\ IF docState # "live"
       THEN /\ error' = [ error EXCEPT ![c] = "Lobby not found" ]
            /\ UNCHANGED << lobbyId, view, joinPc >>
       ELSE IF HasPlayer(doc.players, c)
       THEN /\ error' = [ error EXCEPT ![c] = "You are already in this lobby" ]
            /\ lobbyId' = [ lobbyId EXCEPT ![c] = LobbyDocId ]
            /\ view' = [ view EXCEPT ![c] = "lobby" ]
            /\ UNCHANGED joinPc
       ELSE /\ error' = [ error EXCEPT ![c] = "" ]
            /\ joinPc' = [ joinPc EXCEPT ![c] = "write" ]
            /\ UNCHANGED << lobbyId, view >>
    /\ UNCHANGED << call, docState, doc, gameSessions, lobby, showAnswer,
                    currentTrack, sub, timerLobby, pendingCalls, prepared >>

\* up to the await of updateDoc: getDoc and the checks on what it returned
JoinLobbyRead(c) ==
    /\ view[c] = "menu" /\ lobbyId[c] = "" /\ Idle(c)
    /\ docState # "none"
    /\ IF docState # "live"
       THEN /\ error' = [ error EXCEPT ![c] = "Lobby not found" ]
            /\ UNCHANGED << lobbyId, view, joinPc >>
       ELSE IF doc.status # "waiting"
       THEN /\ error' = [ error EXCEPT ![c] = "Game already started" ]
            /\ UNCHANGED << lobbyId, view, joinPc >>
       ELSE IF HasPlayer(doc.players, c)
       THEN /\ error' = [ error EXCEPT ![c] = "You are already in this lobby" ]
            /\ lobbyId' = [ lobbyId EXCEPT ![c] = LobbyDocId ]
            /\ view' = [ view EXCEPT ![c] = "lobby" ]
            /\ UNCHANGED joinPc
       ELSE /\ error' = [ error EXCEPT ![c] = "" ]
            /\ joinPc' = [ joinPc EXCEPT ![c] = "write" ]
            /\ UNCHANGED << lobbyId, view >>
    /\ UNCHANGED << call, docState, doc, gameSessions, lobby, showAnswer,
                    currentTrack, sub, timerLobby, pendingCalls, prepared >>

\* the arrayUnion write and what follows it
JoinLobbyWrite(c) ==
    /\ joinPc[c] = "write"
    /\ joinPc' = [ joinPc EXCEPT ![c] = "idle" ]
    /\ IF docState = "live"
       THEN /\ doc' = [ doc EXCEPT !.players = ArrayUnion(@, NewPlayer(c, FALSE)) ]
            /\ sub' = Stale(sub)
            /\ lobbyId' = [ lobbyId EXCEPT ![c] = LobbyDocId ]
            /\ view' = [ view EXCEPT ![c] = "lobby" ]
            /\ UNCHANGED error
       ELSE /\ error' = [ error EXCEPT ![c] = "Failed to join lobby" ]
            /\ UNCHANGED << doc, sub, lobbyId, view >>
    /\ UNCHANGED << call, docState, gameSessions, lobby, showAnswer, currentTrack,
                    timerLobby, pendingCalls, prepared >>

\* ------------------------------------------------------ leaveLobby (489-512)
\* the filter of line 500 with its test inverted
RemovePlayerInverted(players, uid) == SelectSeq(players, LAMBDA p : p.uid = uid)

RemovePlayer(players, uid) == SelectSeq(players, LAMBDA p : p.uid # uid)

\* leaveLobby without the host branch of lines 496-498: the host leaves like
\* any other player
leaveLobbyHostAsPlayer(c) ==
    /\ view[c] \in {"lobby", "results"} /\ Idle(c)
    /\ lobby[c] # NullLobby
    /\ IF docState = "live"
       THEN /\ doc' = [ doc EXCEPT !.players = RemovePlayer(lobby[c].players, c) ]
            /\ sub' = Stale(sub)
            /\ lobbyId' = [ lobbyId EXCEPT ![c] = "" ]
            /\ lobby' = [ lobby EXCEPT ![c] = NullLobby ]
            /\ view' = [ view EXCEPT ![c] = "menu" ]
            /\ UNCHANGED docState
       ELSE UNCHANGED << docState, doc, sub, lobbyId, lobby, view >>
    /\ UNCHANGED << call, gameSessions, error, showAnswer, currentTrack,
                    timerLobby, joinPc, pendingCalls, prepared >>

leaveLobby(c) ==
    /\ view[c] \in {"lobby", "results"} /\ Idle(c)
    /\ lobby[c] # NullLobby
    /\ IF IsHost(c)
       THEN /\ docState' = "deleted"
            /\ doc' = doc
            /\ sub' = Stale(sub)
            /\ lobbyId' = [ lobbyId EXCEPT ![c] = "" ]
            /\ lobby' = [ lobby EXCEPT ![c] = NullLobby ]
            /\ view' = [ view EXCEPT ![c] = "menu" ]
       ELSE IF docState = "live"
       THEN /\ doc' = [ doc EXCEPT !.players = RemovePlayer(lobby[c].players, c) ]
            /\ sub' = Stale(sub)
            /\ lobbyId' = [ lobbyId EXCEPT ![c] = "" ]
            /\ lobby' = [ lobby EXCEPT ![c] = NullLobby ]
            /\ view' = [ view EXCEPT ![c] = "menu" ]
            /\ UNCHANGED docState
       ELSE UNCHANGED << docState, doc, sub, lobbyId, lobby, view >>
    /\ UNCHANGED << call, gameSessions, error, showAnswer, currentTrack,
                    timerLobby, joinPc, pendingCalls, prepared >>

\* ------------------------------------------------------ toggleReady (514-528)
ToggledPlayers(players, uid) ==
    [ i \in DOMAIN players |->
        IF players[i].uid = uid
        THEN [ players[i] EXCEPT !.isReady = ~players[i].isReady ]
        ELSE players[i] ]

toggleReady(c) ==
    /\ view[c] = "lobby" /\ Idle(c)
    /\ lobby[c] # NullLobby /\ ~IsHost(c)
    /\ docState = "live"
    /\ doc' = [ doc EXCEPT !.players = ToggledPlayers(lobby[c].players, c) ]
    /\ sub' = Stale(sub)
    /\ UNCHANGED << call, docState, gameSessions, view, lobbyId, lobby, error,
                    showAnswer, currentTrack, timerLobby, joinPc, pendingCalls, prepared >>

\* -------------------------------------------------------- startGame (530-555)
\* Start offsets (ms) startGame may get from getGaussianStartTime; every track
\* of a start gets the same one.  One value is drawn unless the draws themselves
\* are under examination (DrawSpec), where a start may draw another.
StartChoices == IF call.fn = "getGaussianStartTime" THEN { 0, 5000 } ELSE { 0 }

AllReady(l) ==
    \A i \in DOMAIN l.players : l.players[i].uid = l.hostId \/ l.players[i].isReady

\* The Start button is rendered for the host in the lobby view and is disabled
\* unless everybody is ready (1231-1238), by the lobby the handler reads too.
startGame(c) ==
    /\ view[c] = "lobby" /\ Idle(c)
    /\ IsHost(c)
    /\ AllReady(lobby[c])
    /\ IF ~AllReady(lobby[c])
       THEN /\ error' = [ error EXCEPT ![c] = "Not all players are ready" ]
            /\ UNCHANGED << doc, sub >>
       ELSE /\ docState = "live"
            /\ \E s \in StartChoices :
                  doc' = [ doc EXCEPT !.status = "playing",
                                      !.startPositions =
                                         [ i \in DOMAIN lobby[c].tracks |-> s ] ]
            /\ sub' = Stale(sub)
            /\ UNCHANGED error
    /\ UNCHANGED << call, docState, gameSessions, view, lobbyId, lobby,
                    showAnswer, currentTrack, timerLobby, joinPc, pendingCalls, prepared >>

\* ----------------------------------------------------- handleAnswer (699-743)
\* The option buttons of the playing view (1370-1379): what prepareQuestion got
\* from generateSmartMultipleChoiceOptions(track, fullPlaylist, new Set(), 4).
\* fullPlaylist is set by createLobby alone (397), so a client that joined has an
\* empty pool and is offered the correct title only.
Options(c) ==
    IF currentTrack[c] = NoTrack THEN {}
    ELSE IF doc.hostId = c THEN { TrackName(currentTrack[c]), WrongOption }
    ELSE { TrackName(currentTrack[c]) }

GameAnswer(track, userAnswer, isCorrect, timeToAnswer) ==
    [ trackId |-> track, correctAnswer |-> TrackName(track), userAnswer |-> userAnswer,
      isCorrect |-> isCorrect, timeToAnswer |-> timeToAnswer ]

\* lobby.players.map(...) of handleAnswer, lines 722-731
AnsweredPlayers(players, uid, gameAnswer, points) ==
    [ i \in DOMAIN players |->
        IF players[i].uid = uid
        THEN [ players[i] EXCEPT
                 !.score = @ + (IF gameAnswer.isCorrect THEN points ELSE 0),
                 !.answers = Append(@, gameAnswer) ]
        ELSE players[i] ]

\* showAnswer as the click handler's closure holds it: the value of the last
\* render.  Only handleAnswer leaves a render pending, and it was false then.
ClosureShowAnswer(c) == IF Rendered(c) THEN showAnswer[c] ELSE FALSE

\* the guard of line 700 without its showAnswer test
AnswerGuardNoShowAnswer(c) ==
    lobby[c] # NullLobby /\ currentTrack[c] # NoTrack

\* the guard of line 700
AnswerGuard(c) ==
    ~ClosureShowAnswer(c) /\ lobby[c] # NullLobby /\ currentTrack[c] # NoTrack

\* A call of handleAnswer: a click on an option, or a repeated call (a duplicate
\* UI event) that may come before the re-render that follows the first one.
handleAnswer(c, answer, timeToAnswer) ==
    /\ view[c] = "playing" /\ joinPc[c] = "idle" /\ EffectsFlushed(c)
    /\ IF AnswerGuard(c)
       THEN LET isCorrect == answer = TrackName(currentTrack[c])
                points == calculateScore(isCorrect, timeToAnswer, DefaultMaxTime)
                gameAnswer == GameAnswer(currentTrack[c], answer, isCorrect, timeToAnswer)
            IN  /\ showAnswer' = [ showAnswer EXCEPT ![c] = TRUE ]
                /\ pendingCalls' = [ pendingCalls EXCEPT ![c] = IF @ = 0 THEN 1 ELSE 2 ]
                /\ timerLobby' = [ timerLobby EXCEPT ![c] = NullLobby ]
                /\ IF docState = "live"
                   THEN /\ doc' = [ doc EXCEPT !.players =
                                      AnsweredPlayers(lobby[c].players, c, gameAnswer, points) ]
                        /\ sub' = Stale(sub)
                   ELSE UNCHANGED << doc, sub >>
       ELSE UNCHANGED << showAnswer, pendingCalls, timerLobby, doc, sub >>
    /\ UNCHANGED << call, docState, gameSessions, view, lobbyId, lobby, error,
                    currentTrack, joinPc, prepared >>

\* the re-render React schedules for the state handleAnswer set
Render(c) ==
    /\ ~Rendered(c)
    /\ pendingCalls' = [ pendingCalls EXCEPT ![c] = 0 ]
    /\ UNCHANGED << call, docState, doc, gameSessions, view, lobbyId, lobby, error, showAnswer,
                    currentTrack, sub, timerLobby, joinPc, prepared >>

\* ----------------------------------------------------- handleTimeUp (745-784)
\* lobby.players.map(...) of handleTimeUp, lines 764-772
TimedOutPlayers(players, uid, gameAnswer) ==
    [ i \in DOMAIN players |->
        IF players[i].uid = uid
        THEN [ players[i] EXCEPT !.answers = Append(@, gameAnswer) ]
        ELSE players[i] ]

\* The countdown of the timer effect (200-221) reaches zero.  It runs only while
\* view is playing, showAnswer is false and a track is prepared; the handleTimeUp
\* it calls is the one of the render in which the effect ran, so its `lobby` is
\* the document that prepared the question.
handleTimeUp(c) ==
    /\ view[c] = "playing" /\ Idle(c)
    /\ ~showAnswer[c] /\ currentTrack[c] # NoTrack /\ timerLobby[c] # NullLobby
    /\ showAnswer' = [ showAnswer EXCEPT ![c] = TRUE ]
    /\ timerLobby' = [ timerLobby EXCEPT ![c] = NullLobby ]
    /\ IF docState = "live"
       THEN /\ doc' = [ doc EXCEPT !.players =
                          TimedOutPlayers(timerLobby[c].players, c,
                              GameAnswer(currentTrack[c], TimeOutAnswer, FALSE,
                                         DefaultMaxTime)) ]
            /\ sub' = Stale(sub)
       ELSE UNCHANGED << doc, sub >>
    /\ UNCHANGED << call, docState, gameSessions, view, lobbyId, lobby, error,
                    currentTrack, joinPc, pendingCalls, prepared >>

\* ------------------------------------------- nextQuestion, finishGame (786-861)
AllAnswered(l) ==
    \A i \in DOMAIN l.players : Len(l.players[i].answers) > l.currentTrackIndex

EntriesOf(players, uid) == { i \in DOMAIN players : players[i].uid = uid }

\* the loop of lines 820-857 over the host's lobby.players
SessionsAfter(l) ==
    [ u \in Users |-> gameSessions[u] + Cardinality(EntriesOf(l.players, u)) ]

finishGame(c) ==
    /\ IsHost(c)
    /\ \A u \in Users : SessionsAfter(lobby[c])[u] <= MaxSessions
    /\ IF docState = "live"
       THEN /\ doc' = [ doc EXCEPT !.status = "finished" ]
            /\ sub' = Stale(sub)
            /\ gameSessions' = SessionsAfter(lobby[c])
       ELSE UNCHANGED << doc, sub, gameSessions >>
    /\ UNCHANGED error

\* The Next button is rendered for the host once showAnswer is set and is disabled
\* unless everybody has answered (1382-1391), by the lobby the handler reads too.
nextQuestion(c) ==
    /\ view[c] = "playing" /\ Idle(c)
    /\ showAnswer[c] /\ currentTrack[c] # NoTrack
    /\ IsHost(c)
    /\ AllAnswered(lobby[c])
    /\ IF ~AllAnswered(lobby[c])
       THEN /\ error' = [ error EXCEPT ![c] = "Waiting for all players to answer" ]
            /\ UNCHANGED << doc, sub, gameSessions >>
       ELSE IF lobby[c].currentTrackIndex + 1 >= Len(lobby[c].tracks)
       THEN finishGame(c)
       ELSE /\ docState = "live"
            /\ doc' = [ doc EXCEPT !.currentTrackIndex = lobby[c].currentTrackIndex + 1 ]
            /\ sub' = Stale(sub)
            /\ UNCHANGED << error, gameSessions >>
    /\ UNCHANGED << call, docState, view, lobbyId, lobby, showAnswer, currentTrack,
                    timerLobby, joinPc, pendingCalls, prepared >>

\* -------------------------------------------------------- playAgain (871-891)
\* the reset of lines 875-880 without the score
ResetPlayersKeepScore(l) ==
    [ i \in DOMAIN l.players |->
        [ l.players[i] EXCEPT !.answers = << >>,
                              !.isReady = (l.players[i].uid = l.hostId) ] ]

ResetPlayers(l) ==
    [ i \in DOMAIN l.players |->
        [ l.players[i] EXCEPT !.score = 0, !.answers = << >>,
                              !.isReady = (l.players[i].uid = l.hostId) ] ]

\* playAgain that also draws the tracks anew
playAgainNewTracks(c) ==
    /\ view[c] = "results" /\ Idle(c)
    /\ IsHost(c)
    /\ docState = "live"
    /\ doc' = [ doc EXCEPT !.status = "waiting", !.currentTrackIndex = 0,
                           !.players = ResetPlayers(lobby[c]),
                           !.tracks = Tail(@) ]
    /\ sub' = Stale(sub)
    /\ UNCHANGED << call, docState, gameSessions, view, lobbyId, lobby, error,
                    showAnswer, currentTrack, timerLobby, joinPc, pendingCalls, prepared >>

playAgain(c) ==
    /\ view[c] = "results" /\ Idle(c)
    /\ IsHost(c)
    /\ docState = "live"
    /\ doc' = [ doc EXCEPT !.status = "waiting", !.currentTrackIndex = 0,
                           !.players = ResetPlayers(lobby[c]) ]
    /\ sub' = Stale(sub)
    /\ UNCHANGED << call, docState, gameSessions, view, lobbyId, lobby, error,
                    showAnswer, currentTrack, timerLobby, joinPc, pendingCalls, prepared >>

Next ==
    \/ \E c \in Creators : createLobby(c)
    \/ \E c \in Users :
        \/ LobbyListenerEffect(c)
        \/ Deliver(c)
        \/ JoinLobbyRead(c)
        \/ JoinLobbyWrite(c)
        \/ leaveLobby(c)
        \/ toggleReady(c)
        \/ startGame(c)
        \/ \E answer \in Options(c), t \in TimeChoices(c) : handleAnswer(c, answer, t)
        \/ Render(c)
        \/ handleTimeUp(c)
        \/ nextQuestion(c)
        \/ playAgain(c)

Spec == Init /\ [][Next]_vars

\* The lobby with the draws of getGaussianStartTime in startGame under
\* examination: two starts need not draw the same offsets.
DrawnStartTimes == [ fn |-> "getGaussianStartTime", pc |-> "startGame" ]

DrawInit == NoLobbyYet /\ call = DrawnStartTimes

DrawSpec == DrawInit /\ [][Next]_vars

\* The lobby with a second client of one user: the user is signed in on a
\* second device, whose joinLobby (430-487) is under examination.  `call` holds
\* where that call is and the state it has set on the second client.
SecondClientUser == "u2"

SecondJoin ==
    [ fn |-> "joinLobby", pc |-> "menu", uid |-> SecondClientUser,
      view |-> "menu", lobbyId |-> "", error |-> "" ]

\* up to the await of updateDoc, on the second client
SecondJoinLobbyRead ==
    /\ call.fn = "joinLobby" /\ call.pc = "menu"
    /\ docState # "none"
    /\ call' = IF docState # "live"
               THEN [ call EXCEPT !.error = "Lobby not found" ]
               ELSE IF doc.status # "waiting"
               THEN [ call EXCEPT !.error = "Game already started" ]
               ELSE IF HasPlayer(doc.players, call.uid)
               THEN [ call EXCEPT !.error = "You are already in this lobby",
                                  !.lobbyId = LobbyDocId, !.view = "lobby",
                                  !.pc = "joined" ]
               ELSE [ call EXCEPT !.error = "", !.pc = "write" ]
    /\ UNCHANGED lobbyVars

\* the arrayUnion write and what follows it, on the second client
SecondJoinLobbyWrite ==
    /\ call.fn = "joinLobby" /\ call.pc = "write"
    /\ IF docState = "live"
       THEN /\ doc' = [ doc EXCEPT !.players = ArrayUnion(@, NewPlayer(call.uid, FALSE)) ]
            /\ sub' = Stale(sub)
            /\ call' = [ call EXCEPT !.lobbyId = LobbyDocId, !.view = "lobby",
                                     !.pc = "joined" ]
       ELSE /\ call' = [ call EXCEPT !.error = "Failed to join lobby", !.pc = "menu" ]
            /\ UNCHANGED << doc, sub >>
    /\ UNCHANGED << docState, gameSessions, view, lobbyId, lobby, error,
                    showAnswer, currentTrack, timerLobby, joinPc, pendingCalls,
                    prepared >>

SecondClientInit == NoLobbyYet /\ call = SecondJoin

\* Before the first question is answered: the members join, leave, get ready
\* and start, and nobody answers.
SecondClientNext ==
    \/ \E c \in Creators : createLobby(c)
    \/ \E c \in Users :
        \/ LobbyListenerEffect(c)
        \/ Deliver(c)
        \/ JoinLobbyRead(c)
        \/ JoinLobbyWrite(c)
        \/ leaveLobby(c)
        \/ toggleReady(c)
        \/ startGame(c)
    \/ SecondJoinLobbyRead
    \/ SecondJoinLobbyWrite

SecondClientSpec == SecondClientInit /\ [][SecondClientNext]_vars

\* The store calls a subscribed listener with the latest document, React runs a
\* pending effect and a pending render: none of them is postponed for ever.
FairSpec ==
    /\ Spec
    /\ \A c \in Users :
          /\ WF_vars(Deliver(c))
          /\ WF_vars(LobbyListenerEffect(c))
          /\ WF_vars(Render(c))

\* The lobby whose members stay connected: nobody leaves.
ConnectedNext ==
    \/ \E c \in Creators : createLobby(c)
    \/ \E c \in Users :
        \/ LobbyListenerEffect(c)
        \/ Deliver(c)
        \/ JoinLobbyRead(c)
        \/ JoinLobbyWrite(c)
        \/ toggleReady(c)
        \/ startGame(c)
        \/ \E answer \in Options(c), t \in TimeChoices(c) : handleAnswer(c, answer, t)
        \/ Render(c)
        \/ handleTimeUp(c)
        \/ nextQuestion(c)
        \/ playAgain(c)

\* Besides the scheduling of FairSpec: a countdown that runs (the interval of
\* the timer effect, 200-221) reaches zero and calls handleTimeUp; the host
\* presses the Next button whenever it is enabled.
ConnectedSpec ==
    /\ Init /\ [][ConnectedNext]_vars
    /\ \A c \in Users :
          /\ WF_vars(Deliver(c))
          /\ WF_vars(LobbyListenerEffect(c))
          /\ WF_vars(Render(c))
          /\ WF_vars(handleTimeUp(c))
          /\ SF_vars(nextQuestion(c))

\* ---------------------------------------------------------------------------
\* Calls of the functions of src/lib/gameLogic.ts, examined one at a time on
\* their own: `call` holds the function, its arguments, where the call is and,
\* once it has returned, its result.  No lobby exists while a call is examined.
\* ---------------------------------------------------------------------------

\* --- calculateScore
\* maxTime arguments and, for each, the timeToAnswer arguments examined
MaxTimes == { DefaultMaxTime, 30, 10 }

AnswerTimes(maxTime) ==
    IF maxTime = DefaultMaxTime
    THEN { 0, 1, 1980, 6000, 7500, 15000, 26999, 27000, 27001, 29999, 30000 }
    ELSE 0..maxTime

ScoreCalls ==
    { [ fn |-> "calculateScore", pc |-> "called",
        isCorrect |-> b, timeToAnswer |-> a[2], maxTime |-> a[1] ] :
        b \in BOOLEAN,
        a \in UNION { { << m, t >> : t \in AnswerTimes(m) } : m \in MaxTimes } }

CallCalculateScore ==
    /\ call.fn = "calculateScore" /\ call.pc = "called"
    /\ call' = [ fn |-> "calculateScore", pc |-> "returned",
                 isCorrect |-> call.isCorrect,
                 timeToAnswer |-> call.timeToAnswer,
                 maxTime |-> call.maxTime,
                 result |-> calculateScore(call.isCorrect, call.timeToAnswer,
                                           call.maxTime) ]
    /\ UNCHANGED lobbyVars

\* --- generateSmartMultipleChoiceOptions
\* a SpotifyTrack: id, name and artists[0]?.name ("" when there is none)
Track(id, name, artist) == [ id |-> id, name |-> name, artist |-> artist ]

\* `${artist} - Unknown Track`
Decoy(artist) == artist \o " - Unknown Track"

Contains(array, x) == \E i \in DOMAIN array : array[i] = x

\* array.push(x)
ArrayPush(options, x) == Append(options, x)

\* Set.add(x): a Set keeps its elements in insertion order, each once
SetAdd(options, x) == IF Contains(options, x) THEN options ELSE Append(options, x)

\* every array shuffleArray(array) can return
shuffleArray(array) ==
    { [ i \in DOMAIN array |-> array[p[i]] ] :
        p \in { f \in [ DOMAIN array -> DOMAIN array ] :
                  \A i, j \in DOMAIN array : f[i] = f[j] => i = j } }

\* allTracks.filter(t => t.id !== correctTrack.id && !usedOptions.has(t.name))
RECURSIVE AvailableTracks(_, _, _)
AvailableTracks(allTracks, correctTrack, usedOptions) ==
    IF allTracks = << >> THEN << >>
    ELSE LET t == Head(allTracks)
             rest == AvailableTracks(Tail(allTracks), correctTrack, usedOptions)
         IN  IF t.id # correctTrack.id /\ t.name \notin usedOptions
             THEN << t >> \o rest ELSE rest

\* for (i = 0; i < shuffled.length && options.size < count; i++)
\*     options.add(shuffled[i].name)
RECURSIVE AddNames(_, _, _)
AddNames(options, shuffled, count) ==
    IF shuffled = << >> \/ Len(options) >= count THEN options
    ELSE AddNames(SetAdd(options, Head(shuffled).name), Tail(shuffled), count)

\* [...new Set(allTracks.map(t => t.artists[0]?.name).filter(Boolean))]
RECURSIVE UniqueArtists(_, _)
UniqueArtists(allTracks, seen) ==
    IF allTracks = << >> THEN seen
    ELSE UniqueArtists(Tail(allTracks),
                       IF Head(allTracks).artist = "" THEN seen
                       ELSE SetAdd(seen, Head(allTracks).artist))

\* for (const artist of shuffledArtists) { if (options.size >= count) break; ... }
RECURSIVE AddDecoys(_, _, _, _, _)
AddDecoys(options, shuffledArtists, usedOptions, correctName, count) ==
    IF shuffledArtists = << >> \/ Len(options) >= count THEN options
    ELSE LET decoy == Decoy(Head(shuffledArtists))
         IN  AddDecoys(IF decoy \notin usedOptions /\ decoy # correctName
                       THEN SetAdd(options, decoy) ELSE options,
                       Tail(shuffledArtists), usedOptions, correctName, count)

\* if (!finalOptions.includes(correctTrack.name)) finalOptions[0] = correctTrack.name
FinalOptions(options, correctName) ==
    IF Contains(options, correctName) THEN options
    ELSE [ i \in DOMAIN options \cup {1} |-> IF i = 1 THEN correctName ELSE options[i] ]

\* every array the function can return, over the outcomes of its three shuffles
generateSmartMultipleChoiceOptions(correctTrack, allTracks, usedOptions, count) ==
    LET availableTracks == AvailableTracks(allTracks, correctTrack, usedOptions)
        uniqueArtists == UniqueArtists(allTracks, << >>)
        Filled(shuffled) == AddNames(SetAdd(<< >>, correctTrack.name), shuffled, count)
        Decoyed(options, shuffledArtists) ==
            IF Len(options) < count
            THEN AddDecoys(options, shuffledArtists, usedOptions,
                           correctTrack.name, count)
            ELSE options
    IN  UNION { UNION { shuffleArray(FinalOptions(Decoyed(Filled(shuffled), shuffledArtists),
                                                   correctTrack.name)) :
                          shuffledArtists \in shuffleArray(uniqueArtists) } :
                  shuffled \in shuffleArray(availableTracks) }

\* the count every caller passes, and the default of the parameter
DefaultCount == 4

\* candidate pools: four titles by one artist; three titles (scenario D); a
\* second track with the correct title and a track without artist; a title that
\* reads like a decoy; a pool without the correct track; the empty pool
Pools ==
    { << Track(1, "X", "a1"), Track(2, "A", "a1"), Track(3, "B", "a1"), Track(4, "C", "a1") >>,
      << Track(1, "X", "a1"), Track(2, "A", "a1"), Track(3, "B", "a2") >>,
      << Track(1, "X", "a1"), Track(2, "X", "a2"), Track(3, "A", "") >>,
      << Track(1, "X", "a1"), Track(2, Decoy("a1"), "a1"), Track(3, "A", "a2") >>,
      << Track(2, "A", "a1"), Track(3, "B", "a2") >>,
      << >> }

CorrectTracks == { Track(1, "X", "a1"), Track(5, Decoy("a2"), "a2") }

\* names usedOptions is drawn from
UsedNames == { "X", "A", "B", Decoy("a1") }

OptionCalls ==
    { [ fn |-> "generateSmartMultipleChoiceOptions", pc |-> "called",
        correctTrack |-> c, allTracks |-> p, usedOptions |-> u,
        count |-> DefaultCount ] :
        c \in CorrectTracks, p \in Pools, u \in SUBSET UsedNames }

CallGenerateOptions ==
    /\ call.fn = "generateSmartMultipleChoiceOptions" /\ call.pc = "called"
    /\ \E r \in generateSmartMultipleChoiceOptions(call.correctTrack, call.allTracks,
                                                   call.usedOptions, call.count) :
          call' = [ fn |-> "generateSmartMultipleChoiceOptions", pc |-> "returned",
                    correctTrack |-> call.correctTrack,
                    allTracks |-> call.allTracks,
                    usedOptions |-> call.usedOptions,
                    count |-> call.count,
                    result |-> r ]
    /\ UNCHANGED lobbyVars

\* --- getGaussianStartTime, as startGame calls it for one track
\* A number of seconds is held as a whole number of ticks, TicksPerMs ticks to
\* the millisecond, so that Math.floor(seconds * 1000) has something to cut.
TicksPerMs == 2
MsPerSecond == 1000
\* the sampleLength startGame passes, in seconds
SampleSeconds == 30

\* track.duration_ms of the tracks examined
DurationsMs == { 15000, 29999, 30000, 30001, 30002, 180000 }

\* track.duration_ms / 1000
TrackDurationSeconds(durationMs) == durationMs * TicksPerMs

\* Math.floor(startTimeSeconds * 1000)
StartPosition(startTimeSeconds) == startTimeSeconds \div TicksPerMs

\* the loop condition without its upper limit
OutOfBoundsNoUpper(t, maxStart) == t < 0

\* the loop goes round again while (t < 0 || t > maxStart)
OutOfBounds(t, maxStart) == t < 0 \/ t > maxStart

\* Values gaussianRandom(mean, stdev) is taken to return for a track of the
\* given duration (stdev > 0): just outside, on and just inside both ends of
\* the range, and the mean.
GaussianSamples(trackDuration, sampleLength) ==
    LET maxStart == trackDuration - sampleLength
        mean == trackDuration \div 2
    IN  { -1, 0, 1, mean, maxStart - 1, maxStart, maxStart + 1, trackDuration + 1 }

StartTimeCalls ==
    { [ fn |-> "getGaussianStartTime", pc |-> "called", durationMs |-> d,
        trackDuration |-> TrackDurationSeconds(d),
        sampleLength |-> SampleSeconds * MsPerSecond * TicksPerMs ] :
        d \in DurationsMs }

InGaussianLoop ==
    call.fn = "getGaussianStartTime" /\ call.pc \in { "called", "loop" }

\* one round of the do-while that has to be followed by another
GaussianRetry ==
    /\ InGaussianLoop
    /\ \E t \in GaussianSamples(call.trackDuration, call.sampleLength) :
          /\ OutOfBounds(t, call.trackDuration - call.sampleLength)
          /\ call' = [ fn |-> "getGaussianStartTime", pc |-> "loop",
                       durationMs |-> call.durationMs,
                       trackDuration |-> call.trackDuration,
                       sampleLength |-> call.sampleLength,
                       t |-> t ]
    /\ UNCHANGED lobbyVars

\* the round of the do-while that ends it: return t, and startGame's
\* Math.floor(startTimeSeconds * 1000)
GaussianReturn ==
    /\ InGaussianLoop
    /\ \E t \in GaussianSamples(call.trackDuration, call.sampleLength) :
          /\ ~OutOfBounds(t, call.trackDuration - call.sampleLength)
          /\ call' = [ fn |-> "getGaussianStartTime", pc |-> "returned",
                       durationMs |-> call.durationMs,
                       trackDuration |-> call.trackDuration,
                       sampleLength |-> call.sampleLength,
                       t |-> t,
                       result |-> t,
                       startPosition |-> StartPosition(t) ]
    /\ UNCHANGED lobbyVars

\* --- prepareQuestion (557-573), as the listener calls it (262, 271)
\* playableTracks of createLobby: the playlist the game is made from
PlayableTracks ==
    << Track(1, "X", "a1"), Track(2, "A", "a2"), Track(3, "B", "a3"),
       Track(4, "C", "a4"), Track(5, "D", "a5") >>

\* gameTracks of createLobby (396), the tracks of the lobby document: here the
\* first four of one shuffle
GameTracks == SubSeq(PlayableTracks, 1, DefaultCount)

\* fullPlaylist of the calling client: createLobby sets it on the host (397);
\* on a client that joined it is the initial [] of line 91
fullPlaylist(client) == IF client = "host" THEN PlayableTracks ELSE << >>

PrepareCalls ==
    { [ fn |-> "prepareQuestion", pc |-> "called", client |-> m,
        index |-> i, tracks |-> GameTracks, allTracks |-> fullPlaylist(m) ] :
        m \in { "host", "joiner" }, i \in 0..(Len(GameTracks) - 1) }

\* const tracksForOptions = allTracks || fullPlaylist: an array, empty or not,
\* is truthy, so it is allTracks
CallPrepareQuestion ==
    /\ call.fn = "prepareQuestion" /\ call.pc = "called"
    /\ LET track == call.tracks[call.index + 1]
           tracksForOptions == call.allTracks
       IN  \E allOptions \in generateSmartMultipleChoiceOptions(track, tracksForOptions,
                                                                {}, DefaultCount) :
              call' = [ fn |-> "prepareQuestion", pc |-> "returned",
                        client |-> call.client, index |-> call.index,
                        tracks |-> call.tracks, allTracks |-> call.allTracks,
                        currentTrack |-> track, options |-> allOptions ]
    /\ UNCHANGED lobbyVars

FunctionInit ==
    /\ NoLobbyYet
    /\ call \in ScoreCalls \cup OptionCalls \cup StartTimeCalls \cup PrepareCalls

FunctionNext ==
    \/ CallCalculateScore
    \/ CallGenerateOptions
    \/ GaussianRetry
    \/ GaussianReturn
    \/ CallPrepareQuestion

\* The loop of getGaussianStartTime keeps running once the call has started,
\* and the draws of gaussianRandom are independent: a value that ends the loop,
\* when there is one, is drawn sooner or later.
FunctionSpec ==
    /\ FunctionInit
    /\ [][FunctionNext]_vars
    /\ WF_vars(GaussianRetry)
    /\ WF_vars(GaussianReturn)

\* ------------------------------------------------------ property vocabulary
\* positions of the answers the player uid has for a track
AnswersFor(players, uid, track) ==
    { k \in DOMAIN PlayerOf(players, uid).answers :
        PlayerOf(players, uid).answers[k].trackId = track }

\* what one answer was credited with
PointsOf(a) == calculateScore(a.isCorrect, a.timeToAnswer, DefaultMaxTime)

RECURSIVE SumPoints(_)
SumPoints(answers) ==
    IF answers = << >> THEN 0 ELSE PointsOf(Head(answers)) + SumPoints(Tail(answers))

AnswerStep(c) ==
    \E answer \in Options(c), t \in TimeChoices(c) : handleAnswer(c, answer, t)

\* ----------------------------------------------------------------- claims
\* C1: handleAnswer is idempotent per question.  A call made by a client whose
\* showAnswer is already set (a second call for the same question, whether the
\* re-render has happened or not) either leaves the document alone or leaves the
\* caller with exactly one answer for the question and a score equal to the
\* credits of the answers recorded: never a second answer, never a second credit.
C1_IdempotentAnswer ==
    [][ \A c \in Users :
          (showAnswer[c] /\ AnswerStep(c)) =>
             \/ doc' = doc
             \/ /\ HasPlayer(doc'.players, c)
                /\ Cardinality(AnswersFor(doc'.players, c, currentTrack[c])) = 1
                /\ PlayerOf(doc'.players, c).score
                     = SumPoints(PlayerOf(doc'.players, c).answers) ]_vars

\* a second call was made before the re-render, and one answer stands
C1_Witness ==
    \E c \in Users :
        /\ pendingCalls[c] = 2 /\ showAnswer[c] /\ docState = "live"
        /\ HasPlayer(doc.players, c)
        /\ Cardinality(AnswersFor(doc.players, c, currentTrack[c])) = 1

\* the listener of client c is called with a document it prepares a question for
PrepareStep(c) ==
    /\ Deliver(c) /\ docState = "live"
    /\ HasPlayer(doc.players, doc.hostId) /\ HasPlayer(doc.players, c)
    /\ ListenerPrepares(c)

\* the listener of c's current render has processed the latest playing document
ListenerCurrent(c) ==
    /\ view[c] = "playing" /\ sub[c].active /\ sub[c].fresh /\ sub[c].view = "playing"
    /\ lobby[c] # NullLobby /\ lobby[c].status = "playing"

\* C2: question-advance detection.  While a client stays in the playing view,
\* prepareQuestion is never called for an index it was already called for, and
\* once the client's listener has processed a playing document the question of
\* that document's currentTrackIndex has been prepared (none is skipped).
C2_PreparedExactlyOnce ==
    /\ [][ \A c \in Users :
             PrepareStep(c) => doc.currentTrackIndex \notin prepared[c] ]_vars
    /\ [](\A c \in Users :
             ListenerCurrent(c) => lobby[c].currentTrackIndex \in prepared[c])

\* C3: answers are merged as isolated mutations.  A step in which client c
\* records its answer (handleAnswer) or its timeout (handleTimeUp) leaves the
\* entry of every other player of the document as it was.
C3_IsolatedMerge ==
    [][ \A c \in Users :
          (AnswerStep(c) \/ handleTimeUp(c)) =>
             \A u \in Users \ {c} :
                HasPlayer(doc.players, u) =>
                   /\ HasPlayer(doc'.players, u)
                   /\ PlayerOf(doc'.players, u) = PlayerOf(doc.players, u) ]_vars

\* C4: in a lobby that is not finished no player has more than
\* currentTrackIndex + 1 answers, and a player's answers grow only by one
\* answer at a time and only from length currentTrackIndex.
C4_AnswerCountBound ==
    /\ [](docState = "live" /\ doc.status # "finished" =>
             \A i \in DOMAIN doc.players :
                Len(doc.players[i].answers) <= doc.currentTrackIndex + 1)
    /\ [][ \A u \in Users :
             ( /\ docState = "live" /\ docState' = "live"
               /\ HasPlayer(doc.players, u) /\ HasPlayer(doc'.players, u)
               /\ Len(PlayerOf(doc'.players, u).answers)
                    > Len(PlayerOf(doc.players, u).answers) )
             => /\ Len(PlayerOf(doc.players, u).answers) = doc.currentTrackIndex
                /\ Len(PlayerOf(doc'.players, u).answers) = doc.currentTrackIndex + 1 ]_vars
\* C5: joinLobby on a lobby whose status is playing or finished sets the error
\* 'Game already started' and changes neither the document nor the caller's
\* lobbyId and view; no write of the join is left pending.
C5_JoinStartedRejected ==
    [][ \A c \in Users :
          (JoinLobbyRead(c) /\ docState = "live" /\ doc.status # "waiting") =>
             /\ error'[c] = "Game already started"
             /\ doc' = doc /\ docState' = docState
             /\ lobbyId'[c] = lobbyId[c] /\ view'[c] = view[c]
             /\ joinPc'[c] = "idle" ]_vars

\* a user was turned away from the running game and is still at the menu
C5_Witness ==
    \E c \in Users :
        /\ error[c] = "Game already started" /\ view[c] = "menu" /\ lobbyId[c] = ""
        /\ docState = "live" /\ doc.status = "playing" /\ ~HasPlayer(doc.players, c)

\* C6: when the host leaves, the document is deleted; a client that still holds
\* the lobby is then called with not-found, which takes it to the menu with its
\* lobbyId cleared; that happens to every such client and to no client twice
\* (a listener called with not-found has not been called with it before).
C6_HostLeaveClosesLobby ==
    /\ [][ \A c \in Users :
             (leaveLobby(c) /\ IsHost(c)) => docState' = "deleted" ]_vars
    /\ [][ \A c \in Users :
             (Deliver(c) /\ docState = "deleted") =>
                /\ error[c] # "Lobby not found" /\ error'[c] = "Lobby not found"
                /\ view'[c] = "menu" /\ lobbyId'[c] = "" ]_vars
    /\ \A c \in Users :
          (docState = "deleted" /\ lobbyId[c] # "") ~> (view[c] = "menu" /\ lobbyId[c] = "")

\* the host is gone and a player of the lobby was sent to the menu by not-found
C6_Witness ==
    \E c \in Users :
        /\ docState = "deleted" /\ c # doc.hostId /\ HasPlayer(doc.players, c)
        /\ view[doc.hostId] = "menu"
        /\ view[c] = "menu" /\ lobbyId[c] = "" /\ error[c] = "Lobby not found"
        /\ sub[c].active /\ sub[c].fresh

\* the document of scenario A: two players on question 0 of a running game
TwoOnQuestion0(d) ==
    /\ d.status = "playing" /\ d.currentTrackIndex = 0 /\ Len(d.players) = 2
    /\ \A u \in Users : HasPlayer(d.players, u)

\* player uid has exactly its correct answer to question 0 and the score for it
AnsweredQuestion0(d, uid) ==
    LET p == PlayerOf(d.players, uid)
    IN  /\ Len(p.answers) = 1
        /\ p.answers[1].isCorrect /\ p.answers[1].trackId = d.tracks[1]
        /\ p.score = BaseScore
             + (SpeedBonus * (DefaultMaxTime - p.answers[1].timeToAnswer))
                  \div DefaultMaxTime

\* C7: scenario A.  In a two-player game on question 0, a player that has the
\* current document and answers correctly gets exactly that answer and
\* 1000 plus its own speed bonus while the other entry stays as it is, whichever
\* of the two answers first; and when the host advances from the document in
\* which both have answered, the players stay as they are with one answer each
\* and currentTrackIndex becomes 1.
C7_ScenarioA ==
    [][ \A c \in Users :
          /\ ( /\ AnswerStep(c) /\ docState = "live" /\ TwoOnQuestion0(doc)
                /\ lobby[c] = doc /\ currentTrack[c] = doc.tracks[1]
                /\ PlayerOf(doc.players, c).answers = << >>
                /\ PlayerOf(doc.players, c).score = 0
                /\ doc' # doc
                /\ PlayerOf(doc'.players, c).answers[1].isCorrect )
              => /\ TwoOnQuestion0(doc')
                 /\ AnsweredQuestion0(doc', c)
                 /\ \A u \in Users \ {c} :
                       PlayerOf(doc'.players, u) = PlayerOf(doc.players, u)
          /\ ( /\ nextQuestion(c) /\ docState = "live" /\ TwoOnQuestion0(doc)
                /\ \A u \in Users : AnsweredQuestion0(doc, u)
                /\ doc' # doc )
              => /\ doc'.currentTrackIndex = 1 /\ doc'.status = "playing"
                 /\ doc'.players = doc.players
                 /\ \A u \in Users : AnsweredQuestion0(doc', u) ]_vars

\* both have answered question 0 correctly and the host has advanced
C7_Witness ==
    /\ docState = "live" /\ doc.status = "playing" /\ doc.currentTrackIndex = 1
    /\ Len(doc.players) = 2
    /\ \A u \in Users : HasPlayer(doc.players, u) /\ AnsweredQuestion0(doc, u)
    /\ PlayerOf(doc.players, "u1").score # PlayerOf(doc.players, "u2").score

\* C8: status only moves waiting -> playing -> finished, except that the host's
\* playAgain takes it back to waiting, and the document it leaves then has
\* every score at 0 and every answers list empty.
C8_StatusMonotonic ==
    [][ (docState = "live" /\ docState' = "live" /\ doc'.status # doc.status) =>
          \/ doc.status = "waiting" /\ doc'.status = "playing"
          \/ doc.status = "playing" /\ doc'.status = "finished"
          \/ /\ doc'.status = "waiting"
             /\ \E c \in Users : playAgain(c) /\ c = doc.hostId
             /\ \A i \in DOMAIN doc'.players :
                   doc'.players[i].score = 0 /\ doc'.players[i].answers = << >> ]_vars

\* a finished game was taken back to waiting
C8_Witness ==
    /\ docState = "live" /\ doc.status = "waiting"
    /\ gameSessions[doc.hostId] > 0
    /\ \A i \in DOMAIN doc.players : doc.players[i].score = 0

\* C9: while the document exists exactly one entry of players has the uid
\* hostId.  (No reachable document lacks the host, so the listener's host-absent
\* branch, which deletes the document and returns to the menu, never runs.)
C9_HostIsPlayer ==
    docState = "live" => Cardinality(EntriesOf(doc.players, doc.hostId)) = 1

\* a player has left the lobby and the host is still in it
C9_Witness ==
    /\ docState = "live" /\ Len(doc.players) = 1
    /\ doc.players[1].uid = doc.hostId
    /\ \E c \in Users : c # doc.hostId /\ error[c] = "" /\ view[c] = "menu"
                          /\ lobby[c] = NullLobby /\ joinPc[c] = "idle"
                          /\ sub[c].active

\* C10: tracks and totalQuestions are what createLobby wrote for as long as the
\* document exists, and totalQuestions is the length of tracks.
C10_TracksImmutable ==
    [][ docState' = "live" =>
          /\ doc'.totalQuestions = Len(doc'.tracks)
          /\ docState = "live" =>
                (doc'.tracks = doc.tracks /\ doc'.totalQuestions = doc.totalQuestions) ]_vars

\* a second round was opened over the tracks of the first
C10_Witness ==
    /\ docState = "live" /\ doc.status = "waiting" /\ gameSessions[doc.hostId] > 0
    /\ doc.totalQuestions = NumTracks /\ Len(doc.tracks) = NumTracks
\* C11: the status becomes playing only in a step of the host's startGame, and
\* only when every player of the document other than the host is ready at the
\* time of the write.
C11_StartOnlyWhenAllReady ==
    [][ (docState = "live" /\ docState' = "live"
           /\ doc.status # "playing" /\ doc'.status = "playing") =>
          /\ \E c \in Users : c = doc.hostId /\ startGame(c)
          /\ AllReady(doc) ]_vars

\* C12: a step of nextQuestion changes the document only when every player of
\* the document has more answers than currentTrackIndex; it then either adds
\* exactly 1 to currentTrackIndex or finishes the game, and currentTrackIndex
\* stays below the number of tracks.
C12_AdvanceOnlyWhenAllAnswered ==
    [][ \A c \in Users :
          (nextQuestion(c) /\ docState = "live" /\ doc' # doc) =>
             /\ AllAnswered(doc)
             /\ \/ doc'.currentTrackIndex = doc.currentTrackIndex + 1
                \/ doc'.status = "finished"
             /\ doc'.currentTrackIndex < Len(doc'.tracks) ]_vars

\* C13: finishGame writes one gameSessions record (and one profile update) per
\* player of a playthrough: the records of a user grow only in the step that
\* finishes a playing game, by exactly one, and only for a player of the lobby.
C13_FinishOncePerPlaythrough ==
    [][ \A u \in Users :
          gameSessions'[u] # gameSessions[u] =>
             /\ docState = "live" /\ doc.status = "playing" /\ doc'.status = "finished"
             /\ HasPlayer(doc.players, u)
             /\ gameSessions'[u] = gameSessions[u] + 1 ]_vars

\* ---------------------------------------------------------------------------
\* Claims about the functions of src/lib/gameLogic.ts (under FunctionSpec)
\* ---------------------------------------------------------------------------
ScoreReturned == call.fn = "calculateScore" /\ call.pc = "returned"

\* 1000 + floor(500 * (1 - timeToAnswer / maxTime)) in exact arithmetic
ExactScore(timeToAnswer, maxTime) ==
    BaseScore + ((SpeedBonus * (maxTime - timeToAnswer)) \div maxTime)

\* C14: calculateScore returns 0 when isCorrect is false; for isCorrect true
\* and a whole timeToAnswer in [0, maxTime] it returns
\* 1000 + floor(500 * (1 - timeToAnswer / maxTime)), which lies in [500, 1500],
\* and no smaller timeToAnswer gives a smaller result.
C14_ScoreFormula ==
    ScoreReturned =>
       /\ ~call.isCorrect => call.result = 0
       /\ call.isCorrect =>
             /\ call.result = ExactScore(call.timeToAnswer, call.maxTime)
             /\ call.result \in 500..1500
             /\ \A t \in AnswerTimes(call.maxTime) :
                   t <= call.timeToAnswer =>
                      calculateScore(TRUE, t, call.maxTime) >= call.result

\* what of C14 the double arithmetic leaves standing: 0 when incorrect, within
\* [1000, 1500], non-increasing, and the exact value or one point less
ScoreWithinOne ==
    ScoreReturned =>
       /\ ~call.isCorrect => call.result = 0
       /\ call.isCorrect =>
             /\ call.result \in { ExactScore(call.timeToAnswer, call.maxTime),
                                  ExactScore(call.timeToAnswer, call.maxTime) - 1 }
             /\ call.result \in BaseScore..(BaseScore + SpeedBonus)
             /\ \A t \in AnswerTimes(call.maxTime) :
                   t <= call.timeToAnswer =>
                      calculateScore(TRUE, t, call.maxTime) >= call.result

OptionsReturned ==
    call.fn = "generateSmartMultipleChoiceOptions" /\ call.pc = "returned"

\* the positions of an array that hold x
PositionsOf(array, x) == { i \in DOMAIN array : array[i] = x }

\* the titles of a pool
NamesOf(allTracks) == { allTracks[i].name : i \in DOMAIN allTracks }

\* C15: whatever the pool and usedOptions, the list
\* generateSmartMultipleChoiceOptions returns holds the correct track's title
\* exactly once.
C15_CorrectTitleOnce ==
    OptionsReturned =>
       Cardinality(PositionsOf(call.result, call.correctTrack.name)) = 1

\* a call returned for a pool in which a second track has the correct title,
\* with the correct title among the usedOptions
C15_Witness ==
    /\ OptionsReturned
    /\ call.correctTrack.name \in call.usedOptions
    /\ \E i \in DOMAIN call.allTracks :
          /\ call.allTracks[i].name = call.correctTrack.name
          /\ call.allTracks[i].id # call.correctTrack.id
    /\ Len(call.result) > 1

\* no entry of the array occurs twice
PairwiseDistinct(array) ==
    \A i, j \in DOMAIN array : array[i] = array[j] => i = j

\* the decoys the artists of a pool give that are not titles of the pool
DecoysOf(allTracks) ==
    { Decoy(allTracks[i].artist) :
        i \in { k \in DOMAIN allTracks : allTracks[k].artist # "" } }
      \ NamesOf(allTracks)

\* C16: generateSmartMultipleChoiceOptions returns exactly count pairwise
\* distinct options whenever the pool has at least count distinct titles, the
\* correct one among them, and also when the pool has only count - 1 distinct
\* titles but artist decoys are available; at least one decoy is then used.
C16_ExactlyCount ==
    ( OptionsReturned /\ call.correctTrack.name \in NamesOf(call.allTracks) ) =>
       /\ Cardinality(NamesOf(call.allTracks)) >= call.count =>
             Len(call.result) = call.count /\ PairwiseDistinct(call.result)
       /\ ( /\ Cardinality(NamesOf(call.allTracks)) = call.count - 1
            /\ DecoysOf(call.allTracks) # {} ) =>
             /\ Len(call.result) = call.count
             /\ PairwiseDistinct(call.result)
             /\ \E i \in DOMAIN call.result :
                   call.result[i] \in DecoysOf(call.allTracks)

\* C16 for the calls the page makes, which pass an empty usedOptions
ExactlyCountNothingUsed ==
    ( OptionsReturned /\ call.usedOptions = {} ) => C16_ExactlyCount

GaussianReturned == call.fn = "getGaussianStartTime" /\ call.pc = "returned"

\* C17: for a track longer than the sample, the value getGaussianStartTime
\* returns lies in [0, duration - sampleLength], and the start position
\* startGame makes of it lies in [0, duration_ms - 30000].
C17_StartWithinTrack ==
    ( GaussianReturned /\ call.trackDuration > call.sampleLength ) =>
       /\ 0 <= call.result
       /\ call.result <= call.trackDuration - call.sampleLength
       /\ 0 <= call.startPosition
       /\ call.startPosition <= call.durationMs - SampleSeconds * MsPerSecond

\* the latest start a track longer than the sample allows has been returned
C17_Witness ==
    /\ GaussianReturned
    /\ call.trackDuration > call.sampleLength
    /\ call.result = call.trackDuration - call.sampleLength
    /\ call.startPosition = call.durationMs - SampleSeconds * MsPerSecond

\* C18: getGaussianStartTime returns for every track duration, tracks as long
\* as the sample or shorter included.
C18_StartTimeReturns ==
    ( call.fn = "getGaussianStartTime" /\ call.pc = "called" ) ~> GaussianReturned

\* ---------------------------------------------------------------------------
\* Claims about handleTimeUp and playAgain (under Spec)
\* ---------------------------------------------------------------------------
\* the uids of a players array, in order
UidsOf(players) == [ i \in DOMAIN players |-> players[i].uid ]

\* answers grew by exactly one 'Time Out' answer that is not correct
TimeOutAppended(before, after) ==
    /\ Len(after) = Len(before) + 1
    /\ SubSeq(after, 1, Len(before)) = before
    /\ after[Len(after)].userAnswer = TimeOutAnswer
    /\ ~after[Len(after)].isCorrect

\* C19: when the countdown of a player of the shared document expires,
\* handleTimeUp appends exactly one 'Time Out' answer with isCorrect false to
\* that player's answers if the player has no answer for the current question,
\* leaves that player's score as it is and leaves every other player's entry
\* in the shared document as it is; if the player has answered the question
\* already, the document stays as it is.
C19_TimeUpAppendsOwnTimeout ==
    [][ \A c \in Users :
          ( handleTimeUp(c) /\ docState = "live" /\ HasPlayer(doc.players, c) ) =>
             IF AnswersFor(doc.players, c, currentTrack[c]) = {}
             THEN /\ UidsOf(doc'.players) = UidsOf(doc.players)
                  /\ TimeOutAppended(PlayerOf(doc.players, c).answers,
                                     PlayerOf(doc'.players, c).answers)
                  /\ PlayerOf(doc'.players, c).score = PlayerOf(doc.players, c).score
                  /\ \A u \in Users \ {c} :
                        HasPlayer(doc.players, u) =>
                           PlayerOf(doc'.players, u) = PlayerOf(doc.players, u)
             ELSE doc' = doc ]_vars

\* C19 for a countdown whose handleTimeUp closed over the current document
TimeUpOnCurrentDocument ==
    [][ \A c \in Users :
          ( handleTimeUp(c) /\ docState = "live" /\ timerLobby[c] = doc ) =>
             /\ UidsOf(doc'.players) = UidsOf(doc.players)
             /\ TimeOutAppended(PlayerOf(doc.players, c).answers,
                                PlayerOf(doc'.players, c).answers)
             /\ PlayerOf(doc'.players, c).score = PlayerOf(doc.players, c).score
             /\ \A u \in Users \ {c} :
                   HasPlayer(doc.players, u) =>
                      PlayerOf(doc'.players, u) = PlayerOf(doc.players, u) ]_vars

\* C20: playAgain by the host sets status waiting and currentTrackIndex 0,
\* every player's score to 0 and answers to empty, isReady to true for the host
\* and false for every other player, and neither adds nor removes a player;
\* nobody but the host takes the lobby back to waiting.
C20_PlayAgainResets ==
    [][ /\ \A c \in Users :
            ( playAgain(c) /\ docState = "live" ) =>
               /\ c = doc.hostId
               /\ doc'.status = "waiting"
               /\ doc'.currentTrackIndex = 0
               /\ \A i \in DOMAIN doc'.players :
                     /\ doc'.players[i].score = 0
                     /\ doc'.players[i].answers = << >>
                     /\ doc'.players[i].isReady = (doc'.players[i].uid = doc.hostId)
               /\ UidsOf(doc'.players) = UidsOf(doc.players)
        /\ ( docState = "live" /\ docState' = "live"
             /\ doc.status = "finished" /\ doc'.status # "finished" ) =>
               playAgain(doc.hostId) ]_vars

\* ---------------------------------------------------------------------------
\* Claims about the listener, the host's fields and the players array (C21..)
\* ---------------------------------------------------------------------------
\* the view that belongs to a status
ViewOfStatus(status) ==
    IF status = "waiting" THEN "lobby"
    ELSE IF status = "playing" THEN "playing"
    ELSE "results"

\* the listener of client c is called with a document that holds c and the host
MemberSnapshot(c) ==
    /\ Deliver(c)
    /\ docState = "live"
    /\ HasPlayer(doc.players, doc.hostId)
    /\ HasPlayer(doc.players, c)

\* C21: on every pushed document the listener sets the client's view from the
\* document's status alone, whatever the view was: waiting gives lobby, playing
\* gives playing, finished gives results; so after the host's playAgain every
\* subscribed member's view becomes lobby.
C21_ViewFollowsStatus ==
    [][ \A c \in Users :
          MemberSnapshot(c) => view'[c] = ViewOfStatus(doc.status) ]_vars

\* the fields of the document only the host is meant to write
HostFields(d) == << d.status, d.currentTrackIndex, d.startPositions >>

\* C22: status, currentTrackIndex and startPositions of the lobby are written
\* by the client whose uid is hostId only: every step that changes one of them
\* is the host's startGame, nextQuestion or playAgain, and no step of another
\* client changes any of them.
C22_HostFieldsSingleWriter ==
    [][ ( docState = "live" /\ docState' = "live"
          /\ HostFields(doc') # HostFields(doc) ) =>
            /\ \/ startGame(doc.hostId)
               \/ nextQuestion(doc.hostId)
               \/ playAgain(doc.hostId)
            /\ \A c \in Users \ {doc.hostId} :
                  ~ \/ JoinLobbyWrite(c)
                    \/ leaveLobby(c)
                    \/ toggleReady(c)
                    \/ handleTimeUp(c)
                    \/ \E answer \in Options(c), t \in TimeChoices(c) :
                          handleAnswer(c, answer, t) ]_vars

\* a game of two in which the other player has answered and the host has
\* moved on to the second question
C22_Witness ==
    /\ docState = "live"
    /\ doc.status = "playing"
    /\ doc.currentTrackIndex = 1
    /\ \E u \in Users \ {doc.hostId} :
          /\ HasPlayer(doc.players, u)
          /\ PlayerOf(doc.players, u).answers # << >>
          /\ view[u] = "playing"

\* activeLobby?.startPositions?.[index] ?? 0: where prepareQuestion starts the
\* track of the 0-based index when it was called with the document d
PlaybackPosition(d, index) ==
    IF index + 1 \in DOMAIN d.startPositions THEN d.startPositions[index + 1] ELSE 0

\* C23: for each question index every client starts playback at the same
\* offset, the startPositions[index] the host wrote at game start: a client
\* never prepares a question from a document without a position for it, and
\* the position it starts at is the one every other client whose countdown for
\* that question is running started at.
C23_SameOffsetForAll ==
    [][ \A c \in Users :
          PrepareStep(c) =>
             /\ doc.currentTrackIndex + 1 \in DOMAIN doc.startPositions
             /\ \A u \in Users \ {c} :
                   ( /\ view[u] = "playing"
                     /\ timerLobby[u] # NullLobby
                     /\ timerLobby[u].currentTrackIndex = doc.currentTrackIndex ) =>
                        PlaybackPosition(timerLobby[u], doc.currentTrackIndex)
                           = PlaybackPosition(doc, doc.currentTrackIndex) ]_vars

\* no client prepares a question from a document without a position for it
PreparedWithPosition ==
    [][ \A c \in Users :
          PrepareStep(c) =>
             doc.currentTrackIndex + 1 \in DOMAIN doc.startPositions ]_vars

\* the score the document holds for a player, 0 for a user it does not hold
ScoreOf(d, u) == IF HasPlayer(d.players, u) THEN PlayerOf(d.players, u).score ELSE 0

\* C24: within a playthrough no player's score in the shared document goes
\* down from one version of the document to the next, however the answer and
\* timeout writes of the players interleave.
C24_ScoreNeverDecreases ==
    [][ \A c \in Users :
          ( (AnswerStep(c) \/ handleTimeUp(c)) /\ docState = "live" ) =>
             \A u \in Users :
                ( HasPlayer(doc.players, u) /\ HasPlayer(doc'.players, u) ) =>
                   ScoreOf(doc', u) >= ScoreOf(doc, u) ]_vars

\* no two entries of the document's players have the same uid
UniqueUids(players) ==
    \A i, j \in DOMAIN players : players[i].uid = players[j].uid => i = j

\* C25: in every reachable state no two entries of the document's players have
\* the same uid, also when one user joins from two clients while members write.
C25_UniqueUids == docState = "live" => UniqueUids(doc.players)

\* a joinLobby of a user who is in players already adds no entry, and sets the
\* lobby id and the lobby view on the calling client
AlreadyMemberJoin(c) ==
    /\ docState = "live" /\ doc.status = "waiting" /\ HasPlayer(doc.players, c)
    /\ JoinLobbyRead(c)

JoinOfMemberAddsNothing ==
    [][\A c \in Users : AlreadyMemberJoin(c) =>
          /\ doc' = doc /\ joinPc'[c] = "idle"
          /\ lobbyId'[c] = LobbyDocId /\ view'[c] = "lobby"]_vars

\* C26: the membership of players is updated atomically: a leaveLobby of a
\* player who is not the host takes the leaver's entry, and nothing else, out of
\* the players of the document; a toggleReady changes the caller's isReady, and
\* nothing else, in them; a join keeps every entry there is.
\* `after` is `before` but for the isReady of the entries of uid
OnlyReadyOf(uid, before, after) ==
    /\ DOMAIN after = DOMAIN before
    /\ \A i \in DOMAIN before :
          after[i] = before[i]
          \/ /\ before[i].uid = uid
             /\ after[i] = [ before[i] EXCEPT !.isReady = after[i].isReady ]

NonHostLeave(c) == docState = "live" /\ ~IsHost(c) /\ leaveLobby(c)

C26_MembershipAtomic ==
    [][\A c \in Users :
          /\ NonHostLeave(c) => doc'.players = RemovePlayer(doc.players, c)
          /\ toggleReady(c) => OnlyReadyOf(c, doc.players, doc'.players)
          /\ JoinLobbyWrite(c) /\ docState = "live" =>
                SubSeq(doc'.players, 1, Len(doc.players)) = doc.players]_vars

\* C27: however joinLobby (the read of the status, then the append) and the
\* host's startGame interleave, the append of joinLobby adds no player to a
\* document whose status is playing or finished.
C27_NoJoinAfterStart ==
    [][\A c \in Users :
          JoinLobbyWrite(c) /\ docState = "live" /\ doc'.players # doc.players
             => doc.status = "waiting"]_vars

\* C28: a step that takes a client's view into playing prepares the question
\* of the document's currentTrackIndex, and when the listener of a client has
\* processed a playing document and the client is in the playing view, the
\* question prepared on the client is the one of that document's
\* currentTrackIndex: no change of the index is missed, re-subscriptions
\* included.
EntersPlaying(c) == view[c] # "playing" /\ view'[c] = "playing"

ProcessedInPlaying(c) ==
    /\ Deliver(c) /\ docState = "live" /\ doc.status = "playing"
    /\ HasPlayer(doc.players, doc.hostId) /\ HasPlayer(doc.players, c)
    /\ view'[c] = "playing"

QuestionOf(d) == PrepCurrentTrack(d, d.currentTrackIndex)

C28_PreparedIsCurrent ==
    [][\A c \in Users :
          /\ EntersPlaying(c) => currentTrack'[c] = QuestionOf(doc)
          /\ ProcessedInPlaying(c) => currentTrack'[c] = QuestionOf(doc)]_vars

\* the first half on its own
EnteringPrepares ==
    [][\A c \in Users : EntersPlaying(c) => currentTrack'[c] = QuestionOf(doc)]_vars

\* C29: when no member leaves, every countdown of a client that has not
\* answered fires and the host presses Next whenever it is enabled, a game that
\* was started reaches status finished.
GameStarted ==
    /\ docState = "live" /\ doc.status = "playing"
    /\ \A u \in Users : gameSessions[u] < MaxSessions

GameFinished == docState = "live" /\ doc.status = "finished"

C29_StartedGameFinishes == GameStarted ~> GameFinished

\* C30: on every member client, the host's or a joiner's, the options
\* prepareQuestion computes for a lobby of four tracks or more are four
\* different strings, the title of the current track among them.
QuestionPrepared == call.fn = "prepareQuestion" /\ call.pc = "returned"

FourWithTitle(options, title) ==
    /\ Len(options) = DefaultCount
    /\ PairwiseDistinct(options)
    /\ Contains(options, title)

C30_FourOptionsOnEveryClient ==
    QuestionPrepared /\ Len(call.tracks) >= DefaultCount
       => FourWithTitle(call.options, call.currentTrack.name)

\* on the host the options are four different strings with the title
FourOptionsOnHost ==
    QuestionPrepared /\ call.client = "host"
       => FourWithTitle(call.options, call.currentTrack.name)
====
